---- MODULE Spec2Model ----
(***************************************************************************)
(* Model of src/rbac-abac.ts: the Permission enumeration, the Role and     *)
(* User records, hasPermission (flatMap over the user's roles, then        *)
(* Array.prototype.includes), and the role and user objects the test       *)
(* suite builds.  Roles and users live in a heap of objects: a user's      *)
(* `roles` array holds references to role objects, which several users     *)
(* share (multiRoleUser, authorUser and readerUser share authorRole and    *)
(* readerRole).                                                            *)
(*                                                                         *)
(* Spec     : calls of hasPermission, one whole call per step, as the      *)
(*            single-threaded runtime executes them.                       *)
(* SpecConc : several evaluations of hasPermission interleaved at the      *)
(*            grain of one flatMap callback, each with its own `const      *)
(*            permissions` array.                                          *)
(***************************************************************************)
EXTENDS Naturals, Sequences, FiniteSets, TLC

\* ---------------------------------------------------------------- bounds
\* Longest permissions list of the generated role.
MaxPerms == 2
\* Longest roles list of the generated user.
MaxRoles == 2
\* Number of interleaved evaluations in SpecConc.
NumCallers == 2

\* ------------------------------------------------------------ data shapes
\* enum Permission: the twelve string values.
Permission ==
  { "create_comment", "read_comment", "update_comment", "delete_comment",
    "create_post", "read_post", "update_post", "delete_post",
    "create_user", "read_user", "update_user", "delete_user" }

\* Values cast to Permission that are not enum values: the test's
\* "INVALID_PERMISSION", and an enum key (not its value).
NonEnumInputs == { "INVALID_PERMISSION", "CREATE_POST" }

\* The enum values hasPermission is called with: granted by authorRole only,
\* by authorRole and readerRole, by moderatorRole but not authorRole, and by
\* adminRole only.
EnumInputs == { "create_post", "read_post", "delete_post", "delete_user" }

\* The permission arguments hasPermission is called with.
PermissionInputs == EnumInputs \cup NonEnumInputs

\* The enum values the generated role draws its permissions from: one that
\* authorRole grants and one that neither authorRole nor readerRole grants.
PermSample == { "create_post", "delete_user" }

\* All sequences over S of length at most n.
BoundedSeq(S, n) == UNION { [1..k -> S] : k \in 0..n }

\* A JavaScript value held in the `roles` field: an array, or undefined.
ArrayValue(items) == [type |-> "array", items |-> items]
UndefinedValue == [type |-> "undefined", items |-> << >>]

\* interface Role { id; name; permissions }
Role(id, name, permissions) ==
  [id |-> id, name |-> name, permissions |-> permissions]

\* interface User { id; email; roles }
User(id, email, roles) == [id |-> id, email |-> email, roles |-> roles]

\* ------------------------------------------------- the test suite's objects
adminRole ==
  Role("admin", "Administrator",
       << "create_user", "read_user", "update_user", "delete_user",
          "create_post", "read_post", "update_post", "delete_post",
          "create_comment", "read_comment", "update_comment",
          "delete_comment" >>)

moderatorRole ==
  Role("moderator", "Moderator",
       << "read_user",
          "create_post", "read_post", "update_post", "delete_post",
          "create_comment", "read_comment", "update_comment",
          "delete_comment" >>)

authorRole ==
  Role("author", "Author",
       << "create_post", "read_post", "update_post",
          "create_comment", "read_comment", "update_comment" >>)

readerRole ==
  Role("reader", "Reader",
       << "read_post", "read_comment", "create_comment" >>)

\* References to the role objects; genRole is the generated one.
FixtureRoleRefs == { "adminRole", "moderatorRole", "authorRole", "readerRole" }
RoleRefs == FixtureRoleRefs \cup { "genRole" }

\* The role references the generated user's roles are drawn from.
GenRoleChoices == { "genRole", "authorRole", "readerRole" }

adminUser == User("1", "admin@example.com", ArrayValue(<< "adminRole" >>))
moderatorUser ==
  User("2", "moderator@example.com", ArrayValue(<< "moderatorRole" >>))
authorUser == User("3", "author@example.com", ArrayValue(<< "authorRole" >>))
readerUser == User("4", "reader@example.com", ArrayValue(<< "readerRole" >>))
multiRoleUser ==
  User("5", "poweruser@example.com",
       ArrayValue(<< "authorRole", "readerRole" >>))
emptyUser == User("6", "empty@example.com", ArrayValue(<< >>))
\* The test builds it with `roles: [] as Role[]`.
userWithUndefinedRoles ==
  User("7", "undefined@example.com", ArrayValue(<< >>))

FixtureUserRefs ==
  { "adminUser", "moderatorUser", "authorUser", "readerUser",
    "multiRoleUser", "emptyUser", "userWithUndefinedRoles" }
UserRefs == FixtureUserRefs \cup { "genUser" }

\* The heap of role objects, the generated role carrying `perms`.
RoleHeapWith(perms) ==
  [r \in RoleRefs |->
     CASE r = "adminRole" -> adminRole
       [] r = "moderatorRole" -> moderatorRole
       [] r = "authorRole" -> authorRole
       [] r = "readerRole" -> readerRole
       [] OTHER -> Role("gen", "Generated", perms)]

\* The heap of user objects, the generated user carrying `roles`.
UserHeapWith(roles) ==
  [u \in UserRefs |->
     CASE u = "adminUser" -> adminUser
       [] u = "moderatorUser" -> moderatorUser
       [] u = "authorUser" -> authorUser
       [] u = "readerUser" -> readerUser
       [] u = "multiRoleUser" -> multiRoleUser
       [] u = "emptyUser" -> emptyUser
       [] u = "userWithUndefinedRoles" -> userWithUndefinedRoles
       [] OTHER -> User("8", "gen@example.com", roles)]

\* The values the generated user's `roles` field takes: an array of role
\* references, or undefined (a value cast to User at run time).
GenRolesValues ==
  { ArrayValue(s) : s \in BoundedSeq(GenRoleChoices, MaxRoles) }
    \cup { UndefinedValue }

\* The user value hasPermission reads: the user object with every role
\* reference of its `roles` array followed to the role object.
Resolve(rh, uobj) ==
  User(uobj.id, uobj.email,
       [type |-> uobj.roles.type,
        items |-> [i \in 1..Len(uobj.roles.items) |-> rh[uobj.roles.items[i]]]])

\* ------------------------------------------------------------ hasPermission
\* A call's outcome: a returned boolean, or a thrown TypeError.
Returned(b) == [threw |-> FALSE, value |-> b]
ThrewTypeError == [threw |-> TRUE, value |-> FALSE]

\* Mutant: only the first role's permissions are collected.
flatMapFirstRole(roles) ==
  IF roles = << >> THEN << >> ELSE Head(roles).permissions

RECURSIVE flatMapUntilEmpty(_)
\* Mutant: the collection stops at the first role without permissions.
flatMapUntilEmpty(roles) ==
  IF roles = << >> \/ Head(roles).permissions = << >> THEN << >>
  ELSE Head(roles).permissions \o flatMapUntilEmpty(Tail(roles))

RECURSIVE flatMapPermissions(_)
\* user.roles.flatMap((role) => role.permissions): the roles' permissions
\* lists concatenated in order into a new array.
flatMapPermissions(roles) ==
  IF roles = << >> THEN << >>
  ELSE Head(roles).permissions \o flatMapPermissions(Tail(roles))

\* Mutant: the scan starts at the second element.
includesSkipFirst(arr, x) == \E i \in 2..Len(arr) : arr[i] = x

\* Mutant: true only when the element occurs exactly once.
includesExactlyOnce(arr, x) ==
  Cardinality({ i \in 1..Len(arr) : arr[i] = x }) = 1

\* permissions.includes(permission): some element equals x.
includes(arr, x) == \E i \in 1..Len(arr) : arr[i] = x

\* Mutant: a value outside the enumeration is rejected with an error.
hasPermissionValidating(user, permission) ==
  IF user.roles.type # "array" \/ permission \notin Permission
  THEN ThrewTypeError
  ELSE Returned(includes(flatMapPermissions(user.roles.items), permission))

\* Mutant: a user without any granted permission is allowed everything.
hasPermissionDefaultAllow(user, permission) ==
  IF user.roles.type # "array" THEN ThrewTypeError
  ELSE LET permissions == flatMapPermissions(user.roles.items)
       IN  Returned(permissions = << >> \/ includes(permissions, permission))

\* Mutant: a role whose id is "admin" grants everything.
hasPermissionAdminBypass(user, permission) ==
  IF user.roles.type # "array" THEN ThrewTypeError
  ELSE LET permissions == flatMapPermissions(user.roles.items)
       IN  Returned(\/ \E i \in 1..Len(user.roles.items) :
                          user.roles.items[i].id = "admin"
                    \/ includes(permissions, permission))

\* hasPermission(user, permission).  `user.roles.flatMap` on an undefined
\* `roles` throws a TypeError; otherwise the call returns a boolean.
hasPermission(user, permission) ==
  IF user.roles.type # "array" THEN ThrewTypeError
  ELSE LET permissions == flatMapPermissions(user.roles.items)
       IN  Returned(includes(permissions, permission))

\* ------------------------------------------------------------------ state
VARIABLES
  roleHeap,   \* the role objects
  userHeap,   \* the user objects
  pc,         \* Spec: "idle" before the first call, "done" after a call
  callUser,   \* Spec: the user of the last call
  callPerm,   \* Spec: the permission of the last call
  outcome,    \* Spec: the outcome of the last call
  repeated,   \* Spec: the last call had the arguments of the one before
  cpc,        \* SpecConc: each evaluation's position
  cuser,      \* SpecConc: each evaluation's user argument
  cperm,      \* SpecConc: each evaluation's permission argument
  cidx,       \* SpecConc: the index of the next role flatMap visits
  acc,        \* SpecConc: each evaluation's `permissions` array
  cres        \* SpecConc: each evaluation's outcome

heapVars == << roleHeap, userHeap >>
seqVars == << pc, callUser, callPerm, outcome, repeated >>
concVars == << cpc, cuser, cperm, cidx, acc, cres >>
vars == << roleHeap, userHeap, pc, callUser, callPerm, outcome, repeated,
           cpc, cuser, cperm, cidx, acc, cres >>

Callers == 1..NumCallers

SeqIdle ==
  /\ pc = "idle"
  /\ callUser = "none"
  /\ callPerm = "none"
  /\ outcome = Returned(FALSE)
  /\ repeated = FALSE

ConcIdle ==
  /\ cpc = [c \in Callers |-> "idle"]
  /\ cuser = [c \in Callers |-> "none"]
  /\ cperm = [c \in Callers |-> "none"]
  /\ cidx = [c \in Callers |-> 0]
  /\ acc = [c \in Callers |-> << >>]
  /\ cres = [c \in Callers |-> Returned(FALSE)]

\* The objects the caller has built before the first call.
Init ==
  /\ \E perms \in BoundedSeq(PermSample, MaxPerms) :
       roleHeap = RoleHeapWith(perms)
  /\ \E roles \in GenRolesValues : userHeap = UserHeapWith(roles)
  /\ SeqIdle
  /\ ConcIdle

\* ------------------------------------------------------- Spec: whole calls
\* Mutant: the callback empties each role's permissions list as it reads it.
CallDraining(u, p) ==
  /\ pc' = "done"
  /\ callUser' = u
  /\ callPerm' = p
  /\ outcome' = hasPermission(Resolve(roleHeap, userHeap[u]), p)
  /\ repeated' = (pc = "done" /\ callUser = u /\ callPerm = p)
  /\ roleHeap' =
       [r \in RoleRefs |->
          IF \E i \in 1..Len(userHeap[u].roles.items) :
               userHeap[u].roles.items[i] = r
          THEN [roleHeap[r] EXCEPT !.permissions = << >>]
          ELSE roleHeap[r]]
  /\ UNCHANGED userHeap
  /\ UNCHANGED concVars

\* One call hasPermission(userHeap[u], p): it reads the user and its roles,
\* builds a new array and returns; no object is written.
Call(u, p) ==
  /\ pc' = "done"
  /\ callUser' = u
  /\ callPerm' = p
  /\ outcome' = hasPermission(Resolve(roleHeap, userHeap[u]), p)
  /\ repeated' = (pc = "done" /\ callUser = u /\ callPerm = p)
  /\ UNCHANGED heapVars
  /\ UNCHANGED concVars

Next == \E u \in UserRefs, p \in PermissionInputs : Call(u, p)

Spec == Init /\ [][Next]_vars

\* ------------------------------------- SpecConc: interleaved evaluations
\* The users and permissions the interleaved evaluations are started with:
\* genUser and multiRoleUser share authorRole or readerRole.
ConcUsers == { "genUser", "multiRoleUser" }
ConcRolesValues ==
  { ArrayValue(<< "genRole", "authorRole" >>),
    ArrayValue(<< "readerRole", "genRole" >>),
    UndefinedValue }

InitConc ==
  /\ \E perms \in BoundedSeq(PermSample, MaxPerms) :
       roleHeap = RoleHeapWith(perms)
  /\ \E roles \in ConcRolesValues : userHeap = UserHeapWith(roles)
  /\ SeqIdle
  /\ ConcIdle

\* Evaluation c enters hasPermission(userHeap[u], p): `user.roles.flatMap`
\* throws on an undefined `roles`, and otherwise starts with a new array.
Invoke(c, u, p) ==
  /\ cpc[c] = "idle"
  /\ cuser' = [cuser EXCEPT ![c] = u]
  /\ cperm' = [cperm EXCEPT ![c] = p]
  /\ IF userHeap[u].roles.type # "array"
     THEN /\ cpc' = [cpc EXCEPT ![c] = "done"]
          /\ cres' = [cres EXCEPT ![c] = ThrewTypeError]
          /\ UNCHANGED << cidx, acc >>
     ELSE /\ cpc' = [cpc EXCEPT ![c] = "flatMap"]
          /\ cidx' = [cidx EXCEPT ![c] = 1]
          /\ acc' = [acc EXCEPT ![c] = << >>]
          /\ UNCHANGED cres
  /\ UNCHANGED heapVars
  /\ UNCHANGED seqVars

\* Mutant: every evaluation appends to one array that all of them read.
FlatMapStepShared(c) ==
  /\ cpc[c] = "flatMap"
  /\ cidx[c] <= Len(userHeap[cuser[c]].roles.items)
  /\ acc' = [d \in Callers |->
               acc[c] \o roleHeap[userHeap[cuser[c]].roles.items[cidx[c]]].permissions]
  /\ cidx' = [cidx EXCEPT ![c] = cidx[c] + 1]
  /\ UNCHANGED << cpc, cuser, cperm, cres >>
  /\ UNCHANGED heapVars
  /\ UNCHANGED seqVars

\* One callback of flatMap: the permissions of the next role are appended
\* to evaluation c's own array.
FlatMapStep(c) ==
  /\ cpc[c] = "flatMap"
  /\ cidx[c] <= Len(userHeap[cuser[c]].roles.items)
  /\ acc' = [acc EXCEPT ![c] =
               acc[c] \o roleHeap[userHeap[cuser[c]].roles.items[cidx[c]]].permissions]
  /\ cidx' = [cidx EXCEPT ![c] = cidx[c] + 1]
  /\ UNCHANGED << cpc, cuser, cperm, cres >>
  /\ UNCHANGED heapVars
  /\ UNCHANGED seqVars

\* flatMap has visited every role: permissions.includes(permission).
IncludesStep(c) ==
  /\ cpc[c] = "flatMap"
  /\ cidx[c] > Len(userHeap[cuser[c]].roles.items)
  /\ cres' = [cres EXCEPT ![c] = Returned(includes(acc[c], cperm[c]))]
  /\ cpc' = [cpc EXCEPT ![c] = "done"]
  /\ UNCHANGED << cuser, cperm, cidx, acc >>
  /\ UNCHANGED heapVars
  /\ UNCHANGED seqVars

\* The caller has taken the result; the evaluation's locals are gone.
Return(c) ==
  /\ cpc[c] = "done"
  /\ cpc' = [cpc EXCEPT ![c] = "idle"]
  /\ cuser' = [cuser EXCEPT ![c] = "none"]
  /\ cperm' = [cperm EXCEPT ![c] = "none"]
  /\ cidx' = [cidx EXCEPT ![c] = 0]
  /\ acc' = [acc EXCEPT ![c] = << >>]
  /\ cres' = [cres EXCEPT ![c] = Returned(FALSE)]
  /\ UNCHANGED heapVars
  /\ UNCHANGED seqVars

NextConc ==
  \E c \in Callers :
    \/ \E u \in ConcUsers, p \in PermSample : Invoke(c, u, p)
    \/ FlatMapStep(c)
    \/ IncludesStep(c)
    \/ Return(c)

SpecConc == InitConc /\ [][NextConc]_vars

\* ------------------------------------------------------------ the claims
\* The user value the last call of Spec was given.
Callee == Resolve(roleHeap, userHeap[callUser])

\* A call of Spec has completed on a user whose `roles` is an array.
DoneOnArray == pc = "done" /\ userHeap[callUser].roles.type = "array"

\* permission equals some element of the permissions list of role.
Grants(role, permission) ==
  \E k \in 1..Len(role.permissions) : role.permissions[k] = permission

\* C1 (union correctness): for a user whose roles is a sequence of roles,
\* hasPermission returns true iff the permission equals some element of the
\* permissions list of at least one of the user's roles, and false otherwise.
C1_UnionCorrectness ==
  DoneOnArray =>
    outcome = Returned(\E i \in 1..Len(Callee.roles.items) :
                          Grants(Callee.roles.items[i], callPerm))

\* A two-role user whose second role alone grants the permission got true.
C1_Witness ==
  /\ DoneOnArray
  /\ callUser = "genUser"
  /\ Len(Callee.roles.items) = 2
  /\ ~Grants(Callee.roles.items[1], callPerm)
  /\ Grants(Callee.roles.items[2], callPerm)
  /\ outcome = Returned(TRUE)

\* C2 (unknown permission): for a well-formed user, a permission value that
\* is not one of the twelve enum values yields false and never an error.
C2_UnknownPermissionFalse ==
  (DoneOnArray /\ callPerm \notin Permission) => outcome = Returned(FALSE)

\* adminUser, whose role grants all twelve permissions, was asked for
\* "INVALID_PERMISSION" and got false.
C2_Witness ==
  /\ pc = "done"
  /\ callUser = "adminUser"
  /\ callPerm = "INVALID_PERMISSION"
  /\ { p \in Permission : Grants(Callee.roles.items[1], p) } = Permission
  /\ Cardinality(Permission) = 12
  /\ outcome = Returned(FALSE)

\* C3 (empty roles): a user whose roles sequence is empty gets false for
\* every permission.
C3_EmptyRolesFalse ==
  (DoneOnArray /\ userHeap[callUser].roles.items = << >>) =>
    outcome = Returned(FALSE)

\* emptyUser was asked for an enum permission and got false.
C3_Witness ==
  /\ pc = "done"
  /\ callUser = "emptyUser"
  /\ userHeap[callUser].roles = ArrayValue(<< >>)
  /\ callPerm = "read_post"
  /\ outcome = Returned(FALSE)

\* C4 (undefined roles), as claimed: for a user whose roles field is
\* undefined, hasPermission returns false and does not end in an error.
C4_UndefinedRolesFalse ==
  (pc = "done" /\ userHeap[callUser].roles.type = "undefined") =>
    outcome = Returned(FALSE)

\* The user with the same id and email and the single role `role`.
SingleRoleUser(user, role) ==
  User(user.id, user.email, ArrayValue(<< role >>))

\* C5 (multi-role union): for a user with roles [R1, R2], hasPermission
\* equals hasPermission of a user with roles [R1] OR hasPermission of a user
\* with roles [R2].
C5_MultiRoleUnion ==
  (DoneOnArray /\ Len(Callee.roles.items) = 2) =>
    /\ ~outcome.threw
    /\ outcome.value =
         (\/ hasPermission(SingleRoleUser(Callee, Callee.roles.items[1]),
                           callPerm).value
          \/ hasPermission(SingleRoleUser(Callee, Callee.roles.items[2]),
                           callPerm).value)

\* multiRoleUser holds create_post, which authorRole grants and readerRole
\* does not.
C5_Witness ==
  /\ pc = "done"
  /\ callUser = "multiRoleUser"
  /\ callPerm = "create_post"
  /\ outcome = Returned(TRUE)
  /\ hasPermission(SingleRoleUser(Callee, Callee.roles.items[1]), callPerm)
       = Returned(TRUE)
  /\ hasPermission(SingleRoleUser(Callee, Callee.roles.items[2]), callPerm)
       = Returned(FALSE)

\* user with permission p appended to the permissions of its i-th role.
AppendPermission(user, i, p) ==
  [user EXCEPT !.roles.items[i].permissions = Append(@, p)]

\* user with role appended to its roles.
AppendRole(user, role) == [user EXCEPT !.roles.items = Append(@, role)]

\* C6 (duplicate invariance): appending to a role of the user a permission
\* that role already holds, or appending to the user's roles a role already
\* among them, leaves the result of hasPermission unchanged.
C6_DuplicateInvariance ==
  DoneOnArray =>
    \A i \in 1..Len(Callee.roles.items) :
      /\ hasPermission(AppendRole(Callee, Callee.roles.items[i]), callPerm)
           = outcome
      /\ \A k \in 1..Len(Callee.roles.items[i].permissions) :
           hasPermission(
             AppendPermission(Callee, i, Callee.roles.items[i].permissions[k]),
             callPerm) = outcome

\* The generated user was asked for a permission that one of its roles
\* holds exactly once, so that appending it again makes a duplicate.
C6_Witness ==
  /\ DoneOnArray
  /\ callUser = "genUser"
  /\ outcome = Returned(TRUE)
  /\ \E i \in 1..Len(Callee.roles.items) :
       Cardinality({ k \in 1..Len(Callee.roles.items[i].permissions) :
                       Callee.roles.items[i].permissions[k] = callPerm }) = 1

\* C7 (no side effects): a call leaves every user object and every role
\* object (its permissions sequence, contents and order) as it was, and a
\* call repeated with the same user and permission returns the same result.
C7_NoSideEffects ==
  [][ /\ roleHeap' = roleHeap
      /\ userHeap' = userHeap
      /\ (repeated' => outcome' = outcome) ]_vars

\* A call on multiRoleUser was repeated and returned true again.
C7_Witness ==
  /\ pc = "done"
  /\ repeated
  /\ callUser = "multiRoleUser"
  /\ callPerm = "read_post"
  /\ outcome = Returned(TRUE)
  /\ roleHeap["authorRole"] = authorRole
  /\ roleHeap["readerRole"] = readerRole

\* The roles evaluation c's flatMap has visited so far.
Visited(c) ==
  SubSeq(Resolve(roleHeap, userHeap[cuser[c]]).roles.items, 1, cidx[c] - 1)

\* C8 (concurrent invocation): under every interleaving each evaluation
\* returns the result it would return if run alone, and its permissions
\* array holds only what its own flatMap has appended.
C8_ConcurrentSafe ==
  \A c \in Callers :
    /\ cpc[c] = "done" =>
         cres[c] = hasPermission(Resolve(roleHeap, userHeap[cuser[c]]), cperm[c])
    /\ cpc[c] = "flatMap" => acc[c] = flatMapPermissions(Visited(c))

\* Two evaluations over users that share a role have both completed, with
\* different results.
C8_Witness ==
  \E c, d \in Callers :
    /\ cpc[c] = "done" /\ cpc[d] = "done"
    /\ cuser[c] # cuser[d]
    /\ userHeap[cuser[c]].roles.type = "array"
    /\ userHeap[cuser[d]].roles.type = "array"
    /\ \E i \in 1..Len(userHeap[cuser[c]].roles.items) :
         \E j \in 1..Len(userHeap[cuser[d]].roles.items) :
           userHeap[cuser[c]].roles.items[i] = userHeap[cuser[d]].roles.items[j]
    /\ cres[c] = Returned(TRUE)
    /\ cres[d] = Returned(FALSE)

RECURSIVE PerRoleScan(_, _)
\* The per-role strategy: each role's own permissions list is tested in
\* turn, and the scan stops at the first match.
PerRoleScan(roles, permission) ==
  IF roles = << >> THEN FALSE
  ELSE IF Grants(Head(roles), permission) THEN TRUE
  ELSE PerRoleScan(Tail(roles), permission)

\* C9 (strategy equivalence): concatenate-then-test returns the same boolean
\* as the per-role scan that stops at the first match.
C9_StrategyEquivalence ==
  DoneOnArray => outcome = Returned(PerRoleScan(Callee.roles.items, callPerm))

\* The generated user's first role has no permissions and its second role
\* grants the permission asked for.
C9_Witness ==
  /\ DoneOnArray
  /\ callUser = "genUser"
  /\ Len(Callee.roles.items) = 2
  /\ Callee.roles.items[1].permissions = << >>
  /\ Grants(Callee.roles.items[2], callPerm)
  /\ outcome = Returned(TRUE)

\* Attribute values the compared users and roles carry.
UserIdInputs == { "1", "99" }
EmailInputs == { "admin@example.com", "other@example.com" }
RoleIdInputs == { "admin", "other" }
RoleNameInputs == { "Administrator", "Other" }

\* user with its id and email replaced, and each role's id and name
\* replaced, the permissions lists kept position by position.
Relabel(user, uid, email, rids, rname) ==
  User(uid, email,
       ArrayValue([i \in 1..Len(user.roles.items) |->
                     Role(rids[i], rname, user.roles.items[i].permissions)]))

\* The two users' roles carry the same permissions lists position by position.
SamePermissionLists(u1, u2) ==
  /\ u1.roles.type = "array" /\ u2.roles.type = "array"
  /\ Len(u1.roles.items) = Len(u2.roles.items)
  /\ \A i \in 1..Len(u1.roles.items) :
       u1.roles.items[i].permissions = u2.roles.items[i].permissions

====
